---- MODULE Spec2Model ----
(***************************************************************************)
(* Model of free-splitwise (src/app.py): the membership, Expense and       *)
(* ExpenseShare tables, the add_expense and group_view request handlers,   *)
(* and the greedy two-pointer settlement of group_view.                    *)
(*                                                                         *)
(* Money is counted in mills (0.001 of a currency unit), so that the       *)
(* roundings to two decimal places (round(x, 2) on floats, Decimal         *)
(* quantize) are real conversions.  Amounts typed into the form are whole  *)
(* cents, i.e. multiples of Cent.                                          *)
(***************************************************************************)
EXTENDS Integers, Sequences, FiniteSets, TLC

\* ---------------------------------------------------------------- bounds
MaxUsers    == 4    \* user ids 1..MaxUsers exist
MaxAmount   == 2    \* form amounts range over -1..MaxAmount cents
MaxExpenses == 3    \* Expense rows ever inserted
MaxBalance  == 3    \* balance maps of the sweep range over half-cent steps
MaxCustom   == 2    \* members named in one custom split

Cent     == 10      \* mills per 0.01

Users == 1..MaxUsers

Abs(x) == IF x < 0 THEN -x ELSE x

Min(a, b) == IF a <= b THEN a ELSE b

RECURSIVE SumSet(_, _)
\* sum of f[x] over the finite set S
SumSet(f, S) ==
  IF S = {} THEN 0
  ELSE LET x == CHOOSE y \in S : TRUE IN f[x] + SumSet(f, S \ {x})

RECURSIVE SeqSum(_)
SeqSum(s) == IF s = <<>> THEN 0 ELSE Head(s) + SeqSum(Tail(s))

Range(s) == {s[k] : k \in 1..Len(s)}

\* ------------------------------------------------------- float rounding
\* round(x, 2) of the binary64 value x = (a/1000)/n lands on a decimal tie
\* only nominally: the double lies just above or just below it.  HalfUp lists
\* the pairs <<a, n>> (a in mills, 0 < a <= 100, n <= 6) whose double lies
\* above the tie, so that round() goes away from zero; every other tie goes
\* towards zero.  (IEEE 754 binary64, CPython's correctly rounded round().)
HalfUp ==
  { <<5, 1>>, <<25, 1>>, <<35, 1>>, <<55, 1>>, <<65, 1>>, <<85, 1>>, <<95, 1>>,
    <<10, 2>>, <<50, 2>>, <<70, 2>>, <<15, 3>>, <<20, 4>>, <<100, 4>>, <<25, 5>>, <<30, 6>> }

\* round(a / n, 2): a in mills, result in mills (a whole number of cents)
RoundDiv(a, n) ==
  LET m == Abs(a)
      q == m \div (Cent * n)
      r == m % (Cent * n)
      c == IF 2 * r > Cent * n THEN q + 1
           ELSE IF 2 * r < Cent * n THEN q
           ELSE IF <<m, n>> \in HalfUp THEN q + 1 ELSE q
  IN  IF a < 0 THEN -(Cent * c) ELSE Cent * c

\* round(x, 2)
Round2(a) == RoundDiv(a, 1)

\* Decimal(str(x)).quantize(Decimal('0.01')): exact decimal, ROUND_HALF_EVEN
Quantize(a) ==
  LET m == Abs(a)
      q == m \div Cent
      r == m % Cent
      c == IF 2 * r > Cent THEN q + 1
           ELSE IF 2 * r < Cent THEN q
           ELSE IF q % 2 = 0 THEN q ELSE q + 1
  IN  IF a < 0 THEN -(Cent * c) ELSE Cent * c

\* ---------------------------------------------------- compute_settlements
\* creditors.sort(key=amount, reverse=True): stable, largest first
RECURSIVE SortDesc(_)
SortDesc(s) ==
  IF s = <<>> THEN <<>>
  ELSE LET rest == SortDesc(SubSeq(s, 1, Len(s) - 1))
           x    == s[Len(s)]
           k    == Cardinality({p \in 1..Len(rest) : rest[p][2] >= x[2]})
       IN  SubSeq(rest, 1, k) \o <<x>> \o SubSeq(rest, k + 1, Len(rest))

\* debtors.sort(key=amount): stable, most negative first
RECURSIVE SortAsc(_)
SortAsc(s) ==
  IF s = <<>> THEN <<>>
  ELSE LET rest == SortAsc(SubSeq(s, 1, Len(s) - 1))
           x    == s[Len(s)]
           k    == Cardinality({p \in 1..Len(rest) : rest[p][2] <= x[2]})
       IN  SubSeq(rest, 1, k) \o <<x>> \o SubSeq(rest, k + 1, Len(rest))

\* dec_bal.items(): <<uid, quantized amount>> in the dict's key order
DecBal(keys, bal) == [k \in 1..Len(keys) |-> <<keys[k], Quantize(bal[keys[k]])>>]

IsCreditor(p) == p[2] > 0

IsDebtor(p) == p[2] < 0

\* the state of compute_settlements on entry to its while loop; i and j count
\* from 0 as in the code, the sequences are indexed from 1
SweepStart(keys, bal) ==
  [ creditors   |-> SortDesc(SelectSeq(DecBal(keys, bal), IsCreditor)),
    debtors     |-> SortAsc(SelectSeq(DecBal(keys, bal), IsDebtor)),
    i           |-> 0,
    j           |-> 0,
    settlements |-> <<>>,
    pc          |-> "loop" ]

\* SweepStep with `elif` for the second pointer test: at most one pointer
\* advances per iteration
SweepStepElif(s) ==
  IF ~(s.i < Len(s.debtors) /\ s.j < Len(s.creditors))
  THEN [s EXCEPT !.pc = "done"]
  ELSE LET debtor_id == s.debtors[s.i + 1][1]
           debt_amt  == s.debtors[s.i + 1][2]
           cred_id   == s.creditors[s.j + 1][1]
           cred_amt  == s.creditors[s.j + 1][2]
           transfer  == Quantize(Min(cred_amt, -debt_amt))
           debt_new  == Quantize(debt_amt + transfer)
           cred_new  == Quantize(cred_amt - transfer)
       IN  IF transfer <= 0
           THEN [s EXCEPT !.pc = "done"]
           ELSE [ creditors   |-> [s.creditors EXCEPT ![s.j + 1] = <<cred_id, cred_new>>],
                  debtors     |-> [s.debtors EXCEPT ![s.i + 1] = <<debtor_id, debt_new>>],
                  i           |-> IF Abs(debt_new) <= 0 THEN s.i + 1 ELSE s.i,
                  j           |-> IF Abs(debt_new) > 0 /\ cred_new <= 0
                                  THEN s.j + 1 ELSE s.j,
                  settlements |-> Append(s.settlements,
                                         [from |-> debtor_id, to |-> cred_id,
                                          amount |-> transfer]),
                  pc          |-> "loop" ]

\* SweepStep moving at most one cent per transfer
SweepStepByCent(s) ==
  IF ~(s.i < Len(s.debtors) /\ s.j < Len(s.creditors))
  THEN [s EXCEPT !.pc = "done"]
  ELSE LET debtor_id == s.debtors[s.i + 1][1]
           debt_amt  == s.debtors[s.i + 1][2]
           cred_id   == s.creditors[s.j + 1][1]
           cred_amt  == s.creditors[s.j + 1][2]
           transfer  == Quantize(Min(Cent, Min(cred_amt, -debt_amt)))
           debt_new  == Quantize(debt_amt + transfer)
           cred_new  == Quantize(cred_amt - transfer)
       IN  IF transfer <= 0
           THEN [s EXCEPT !.pc = "done"]
           ELSE [ creditors   |-> [s.creditors EXCEPT ![s.j + 1] = <<cred_id, cred_new>>],
                  debtors     |-> [s.debtors EXCEPT ![s.i + 1] = <<debtor_id, debt_new>>],
                  i           |-> IF Abs(debt_new) <= 0 THEN s.i + 1 ELSE s.i,
                  j           |-> IF cred_new <= 0 THEN s.j + 1 ELSE s.j,
                  settlements |-> Append(s.settlements,
                                         [from |-> debtor_id, to |-> cred_id,
                                          amount |-> transfer]),
                  pc          |-> "loop" ]

\* one evaluation of the loop condition and, when it holds, of the loop body
SweepStep(s) ==
  IF ~(s.i < Len(s.debtors) /\ s.j < Len(s.creditors))
  THEN [s EXCEPT !.pc = "done"]
  ELSE LET debtor_id == s.debtors[s.i + 1][1]
           debt_amt  == s.debtors[s.i + 1][2]
           cred_id   == s.creditors[s.j + 1][1]
           cred_amt  == s.creditors[s.j + 1][2]
           transfer  == Quantize(Min(cred_amt, -debt_amt))
           debt_new  == Quantize(debt_amt + transfer)
           cred_new  == Quantize(cred_amt - transfer)
       IN  IF transfer <= 0
           THEN [s EXCEPT !.pc = "done"]
           ELSE [ creditors   |-> [s.creditors EXCEPT ![s.j + 1] = <<cred_id, cred_new>>],
                  debtors     |-> [s.debtors EXCEPT ![s.i + 1] = <<debtor_id, debt_new>>],
                  i           |-> IF Abs(debt_new) <= 0 THEN s.i + 1 ELSE s.i,
                  j           |-> IF cred_new <= 0 THEN s.j + 1 ELSE s.j,
                  settlements |-> Append(s.settlements,
                                         [from |-> debtor_id, to |-> cred_id,
                                          amount |-> transfer]),
                  pc          |-> "loop" ]

RECURSIVE SweepRun(_)
SweepRun(s) == IF s.pc = "done" THEN s ELSE SweepRun(SweepStep(s))

\* compute_settlements(bal_map): the returned list
compute_settlements(keys, bal) == SweepRun(SweepStart(keys, bal)).settlements

\* ------------------------------------------------------------- the store
VARIABLES
  members,     \* Membership rows of the group: user ids in insertion order
  expenses,    \* Expense rows: [id, amount, created_by]
  shares,      \* ExpenseShare rows: [expense_id, user_id, amount]
  request,     \* the request served last: its handler and, for add_expense, its form
  response,    \* what the last request returned to its client
  inflight,    \* add_expense requests between their two commits
  bal_map,     \* compute_settlements: its argument
  sweep        \* compute_settlements: its locals

vars == <<members, expenses, shares, request, response, inflight, bal_map, sweep>>

NoRequest == [handler |-> "none"]

Served(handler) == [handler |-> handler]

\* an add_expense request with request.form = form
Posted(form) == [handler |-> "add_expense", form |-> form]

NoResponse == [kind |-> "none"]

Flash(msg) == [kind |-> "redirect", flash |-> msg]

\* flash(f"Custom split amounts (${total_custom:.2f}) do not equal total
\* expense (${amt:.2f}).")
FlashMismatch(total_custom, amt) ==
  [kind |-> "redirect", flash |-> "Custom split amounts do not equal total expense",
   total_custom |-> total_custom, amt |-> amt]

\* an unhandled exception in a handler: HTTP 500
ServerError(handler) == [kind |-> "error", handler |-> handler]

SweepIdle ==
  [creditors |-> <<>>, debtors |-> <<>>, i |-> 0, j |-> 0,
   settlements |-> <<>>, pc |-> "idle"]

NoBalMap == [u \in {} |-> 0]

IsMember(u) == u \in Range(members)

\* --------------------------------------------------------------- group_view
SharesOf(eid) == {s \in shares : s.expense_id = eid}

\* shares[e.id]: the stored rows, or the default equal split among members
ShareMap(e) ==
  IF SharesOf(e.id) # {}
  THEN [u \in {s.user_id : s \in SharesOf(e.id)} |->
          (CHOOSE s \in SharesOf(e.id) : s.user_id = u).amount]
  ELSE [u \in Range(members) |->
          IF members # <<>> THEN RoundDiv(e.amount, Len(members)) ELSE e.amount]

\* total_paid[payer] += ... and total_owed[uid] += ... raise KeyError for a
\* key that is not in member_ids
ViewRaises ==
  \E e \in expenses :
       \/ ~IsMember(e.created_by)
       \/ \E u \in DOMAIN ShareMap(e) : ~IsMember(u)

PaidBy(u) == {e \in expenses : e.created_by = u}

Owing(u) == {e \in expenses : u \in DOMAIN ShareMap(e)}

total_paid == [u \in Range(members) |-> SumSet([e \in expenses |-> e.amount], PaidBy(u))]

total_owed ==
  [u \in Range(members) |-> SumSet([e \in expenses |-> ShareMap(e)[u]], Owing(u))]

\* the payer's balance grows by amount - share only inside the loop over the
\* expense's shares, so only when the payer has a share of the expense
balances ==
  [u \in Range(members) |->
     SumSet([e \in expenses |->
               IF u = e.created_by THEN e.amount - ShareMap(e)[u] ELSE -ShareMap(e)[u]],
            Owing(u))]

net_balances == [u \in Range(members) |-> Round2(total_paid[u] - total_owed[u])]

\* what group_view renders for a member of the group
GroupPage ==
  IF ViewRaises THEN ServerError("group_view")
  ELSE [kind         |-> "group",
        expenses     |-> expenses,
        shares       |-> [eid \in {e.id : e \in expenses} |->
                            ShareMap(CHOOSE e \in expenses : e.id = eid)],
        balances     |-> balances,
        net_balances |-> net_balances,
        settlements  |-> compute_settlements(members, balances)]

\* ----------------------------------------------------------- add_expense
\* request.form of add_expense.  amount: the text of the amount field, either
\* not a number or a number of mills; selected: the ids in getlist('members');
\* garbled: the list also holds an entry that is not an integer;
\* custom: the amount_<id> fields, in mills
NonNumeric == [numeric |-> FALSE, value |-> 0]

Numeric(a) == [numeric |-> TRUE, value |-> a]

FormAmounts == {NonNumeric} \cup {Numeric(Cent * k) : k \in -1..MaxAmount}

CustomAmounts == {Cent * k : k \in 0..MaxAmount}

NoCustom == [u \in {} |-> 0]

\* requests without amount_<id> fields
EvenRequests ==
  { [user |-> u, amount |-> a, split_mode |-> m, selected |-> sel,
     garbled |-> FALSE, custom |-> NoCustom] :
      u \in Users, a \in FormAmounts, m \in {"all", "selected_even", "other"},
      sel \in SUBSET Users }

\* requests whose members list holds an entry that is not an integer
GarbledRequests ==
  { [user |-> u, amount |-> a, split_mode |-> m, selected |-> sel,
     garbled |-> TRUE, custom |-> [uid \in sel |-> 0]] :
      u \in Users, a \in FormAmounts,
      m \in {"all", "selected_even", "selected_custom", "other"},
      sel \in SUBSET Users }

CustomSelections == {sel \in SUBSET Users : Cardinality(sel) \in 1..MaxCustom}

CustomRequests ==
  UNION { { [user |-> u, amount |-> a, split_mode |-> "selected_custom",
             selected |-> sel, garbled |-> FALSE, custom |-> c] :
              u \in Users, a \in FormAmounts, c \in [sel -> CustomAmounts] } :
          sel \in CustomSelections }

Requests == EvenRequests \cup GarbledRequests \cup CustomRequests

\* SQLite hands out max(rowid) + 1
NextId ==
  IF expenses = {} THEN 1
  ELSE 1 + (CHOOSE n \in {e.id : e \in expenses} : \A e \in expenses : e.id <= n)

\* lines 320-325: float(amount) succeeds
AmountParses(req) == req.amount.numeric

\* line 328
NewExpense(req) ==
  [id |-> NextId, amount |-> req.amount.value, created_by |-> req.user]

\* line 337: split_mode == 'all' or not selected
SplitsAmongAll(req) ==
  req.split_mode = "all" \/ (req.selected = {} /\ ~req.garbled)

\* lines 352, 360: int(x) raises ValueError
ParseRaises(req) ==
  /\ ~SplitsAmongAll(req)
  /\ req.split_mode \in {"selected_even", "selected_custom"}
  /\ req.garbled

total_custom(req) == SumSet(req.custom, req.selected)

\* CustomMismatch tolerating a difference of one cent
CustomMismatchTolerant(req) ==
  /\ ~SplitsAmongAll(req)
  /\ req.split_mode = "selected_custom"
  /\ ~req.garbled
  /\ Abs(total_custom(req) - req.amount.value) > Cent

\* line 373
CustomMismatch(req) ==
  /\ ~SplitsAmongAll(req)
  /\ req.split_mode = "selected_custom"
  /\ ~req.garbled
  /\ Round2(total_custom(req)) # Round2(req.amount.value)

\* the ExpenseShare rows added for expense e (lines 337-381)
NewShares(req, e) ==
  IF SplitsAmongAll(req)
  THEN LET n == IF members # <<>> THEN Len(members) ELSE 1
       IN  {[expense_id |-> e.id, user_id |-> m, amount |-> RoundDiv(e.amount, n)] :
              m \in Range(members)}
  ELSE IF req.split_mode = "selected_even"
  THEN {[expense_id |-> e.id, user_id |-> uid,
         amount |-> RoundDiv(e.amount, Cardinality(req.selected))] :
          uid \in req.selected}
  ELSE IF req.split_mode = "selected_custom"
  THEN {[expense_id |-> e.id, user_id |-> uid, amount |-> req.custom[uid]] :
          uid \in req.selected}
  ELSE {}

\* lines 332-384, run on the store in which expense e is already committed:
\* the rows of both tables after the handler's last commit, and its response
SplitOutcome(req, e) ==
  IF ParseRaises(req)
  THEN [expenses |-> expenses \cup {e}, shares |-> shares,
        response |-> ServerError("add_expense")]
  ELSE IF CustomMismatch(req)
  THEN [expenses |-> expenses \ {e}, shares |-> shares,
        response |-> FlashMismatch(total_custom(req), e.amount)]
  ELSE [expenses |-> expenses \cup {e}, shares |-> shares \cup NewShares(req, e),
        response |-> Flash("Expense added")]

\* add_expense as one request served alone
AddExpense(req) ==
  /\ members # <<>>
  /\ inflight = {}
  /\ request' = Posted(req)
  /\ IF ~IsMember(req.user)
     THEN /\ response' = Flash("Not a member")
          /\ UNCHANGED <<expenses, shares>>
     ELSE IF ~AmountParses(req)
     THEN /\ response' = Flash("Invalid amount")
          /\ UNCHANGED <<expenses, shares>>
     ELSE LET out == SplitOutcome(req, NewExpense(req))
          IN  /\ expenses' = out.expenses
              /\ shares' = out.shares
              /\ response' = out.response
  /\ UNCHANGED <<members, inflight, bal_map, sweep>>

\* --------------------------------------------- create_group, join_group
\* users create and join the group in the order of their ids
CreateGroup(u) ==
  /\ members = <<>>
  /\ u = 1
  /\ members' = <<u>>
  /\ request' = Served("create_group")
  /\ response' = Flash("Group created")
  /\ UNCHANGED <<expenses, shares, inflight, bal_map, sweep>>

JoinGroup(u) ==
  /\ members # <<>>
  /\ u = Len(members) + 1
  /\ members' = Append(members, u)
  /\ request' = Served("join_group")
  /\ response' = Flash("Joined group")
  /\ UNCHANGED <<expenses, shares, inflight, bal_map, sweep>>

\* group_view requested by user u
GroupView(u) ==
  /\ members # <<>>
  /\ request' = Served("group_view")
  /\ response' = IF IsMember(u) THEN GroupPage
                 ELSE Flash("You are not a member of this group")
  /\ UNCHANGED <<members, expenses, shares, inflight, bal_map, sweep>>

\* lines 312-330 of add_expense: up to the commit of the Expense row
AddExpenseBegin(req) ==
  /\ members # <<>>
  /\ inflight = {}
  /\ request' = Posted(req)
  /\ IF ~IsMember(req.user)
     THEN /\ response' = Flash("Not a member")
          /\ UNCHANGED <<expenses, inflight>>
     ELSE IF ~AmountParses(req)
     THEN /\ response' = Flash("Invalid amount")
          /\ UNCHANGED <<expenses, inflight>>
     ELSE /\ expenses' = expenses \cup {NewExpense(req)}
          /\ inflight' = {[req |-> req, e |-> NewExpense(req)]}
          /\ UNCHANGED response
  /\ UNCHANGED <<members, shares, bal_map, sweep>>

\* lines 332-384 of add_expense: from the commit of the Expense row to the end
AddExpenseFinish ==
  \E r \in inflight :
    LET out == SplitOutcome(r.req, r.e)
    IN  /\ expenses' = out.expenses
        /\ shares' = out.shares
        /\ response' = out.response
        /\ inflight' = {}
        /\ UNCHANGED <<members, request, bal_map, sweep>>

\* the add-expense form is posted from a rendered page: a client follows the
\* redirect that answers one add_expense request before it posts the next
FormReady == request.handler # "add_expense"

\* ------------------------------------------------------------------ Spec
\* one group from its creation to its first recorded expense, requests
\* served one at a time
Init ==
  /\ members = <<>>
  /\ expenses = {}
  /\ shares = {}
  /\ request = NoRequest
  /\ response = NoResponse
  /\ inflight = {}
  /\ bal_map = NoBalMap
  /\ sweep = SweepIdle

\* add_expense while the group has no expense yet
AddFirstExpense ==
  /\ FormReady
  /\ expenses = {}
  /\ \E req \in Requests : AddExpense(req)

Next ==
  \/ \E u \in Users : CreateGroup(u)
  \/ \E u \in Users : JoinGroup(u)
  \/ AddFirstExpense
  \/ \E u \in Users : GroupView(u)

Spec == Init /\ [][Next]_vars

\* ------------------------------------------------------------ SpecLedger
\* a group's ledger of up to MaxExpenses expenses, each a positive amount
\* split evenly among all members (the form's default)
LedgerRequests ==
  { [user |-> u, amount |-> Numeric(Cent * k), split_mode |-> "all",
     selected |-> {}, garbled |-> FALSE, custom |-> NoCustom] :
      u \in Users, k \in 1..MaxAmount }

\* add_expense, evenly among all, while the table has room
AddLedgerExpense ==
  /\ Cardinality(expenses) < MaxExpenses
  /\ \E req \in LedgerRequests : AddExpense(req)

NextLedger ==
  \/ \E u \in Users : CreateGroup(u)
  \/ \E u \in Users : JoinGroup(u)
  \/ AddLedgerExpense
  \/ \E u \in Users : GroupView(u)

SpecLedger == Init /\ [][NextLedger]_vars

\* -------------------------------------------------------------- SpecConc
\* requests of several clients served concurrently: every commit of
\* add_expense is a step of its own, and other requests run in between
ConcRequests ==
  {req \in Requests : ~req.garbled /\ req.amount.numeric /\ req.amount.value > 0}

\* the first commit of add_expense while the group has no expense yet
BeginFirstExpense ==
  /\ FormReady
  /\ expenses = {}
  /\ \E req \in ConcRequests : AddExpenseBegin(req)

NextConc ==
  \/ \E u \in Users : CreateGroup(u)
  \/ \E u \in Users : JoinGroup(u)
  \/ BeginFirstExpense
  \/ AddExpenseFinish
  \/ \E u \in Users : GroupView(u)

SpecConc == Init /\ [][NextConc]_vars

\* ------------------------------------------------------------ SpecSettle
\* compute_settlements on every balance map over a half-cent grid, one
\* iteration of its while loop per step
Groups == {[k \in 1..n |-> k] : n \in 0..MaxUsers}

BalanceValues == {(Cent \div 2) * k : k \in -MaxBalance..MaxBalance}

InitSettle ==
  /\ members \in Groups
  /\ bal_map \in [Range(members) -> BalanceValues]
  /\ sweep = SweepStart(members, bal_map)
  /\ expenses = {}
  /\ shares = {}
  /\ request = NoRequest
  /\ response = NoResponse
  /\ inflight = {}

SweepLoop ==
  /\ sweep.pc = "loop"
  /\ sweep' = SweepStep(sweep)
  /\ UNCHANGED <<members, expenses, shares, request, response, inflight, bal_map>>

NextSettle == SweepLoop

\* the loop runs to its end: nothing else is scheduled inside the call
SpecSettle == InitSettle /\ [][NextSettle]_vars /\ WF_vars(SweepLoop)

\* ================================================================ claims
\* the balances of a rendered group page after every returned settlement has
\* been paid: the payer `from` moves up towards zero, the payee `to` down
Settled(page, u) ==
  page.net_balances[u]
    + SeqSum([k \in 1..Len(page.settlements) |->
                IF page.settlements[k].from = u THEN page.settlements[k].amount ELSE 0])
    - SeqSum([k \in 1..Len(page.settlements) |->
                IF page.settlements[k].to = u THEN page.settlements[k].amount ELSE 0])

\* every stored expense has a positive amount
AllPositive == \A e \in expenses : e.amount > 0

\* C1: on every page group_view renders for a ledger of positive expenses,
\* paying all returned settlements leaves every member's net balance within
\* 0.01 of zero.
C1_SettlementsZeroNetBalances ==
  (response.kind = "group" /\ AllPositive) =>
    \A u \in DOMAIN response.net_balances : Abs(Settled(response, u)) <= Cent

\* a request of add_expense with a custom split that is parsed to the end
IsCustom(req) ==
  /\ req.split_mode = "selected_custom"
  /\ ~req.garbled
  /\ AmountParses(req)
  /\ IsMember(req.user)

\* the step recorded the expense of req with exactly the submitted shares
RecordedAsSubmitted(req) ==
  /\ expenses' = expenses \cup {NewExpense(req)}
  /\ shares' = shares \cup
       {[expense_id |-> NewExpense(req).id, user_id |-> uid, amount |-> req.custom[uid]] :
          uid \in req.selected}
  /\ response' = Flash("Expense added")

\* the step rejected req: the error is flashed and no row is left behind
Rejected(req) ==
  /\ expenses' = expenses
  /\ shares' = shares
  /\ response' = FlashMismatch(total_custom(req), req.amount.value)

\* the step serves an add_expense request with a custom split
ServesCustom ==
  /\ request'.handler = "add_expense"
  /\ IsCustom(request'.form)
  /\ inflight' = {}

C3_ExpenseAndSharesTogether ==
  (inflight = {} /\ AllPositive) => \A e \in expenses : SharesOf(e.id) # {}

\* C4: on every rendered page the net balances sum to zero within 0.01 times
\* the number of members.
C4_Conservation ==
  response.kind = "group" =>
    Abs(SumSet(response.net_balances, DOMAIN response.net_balances))
      <= Cent * Cardinality(DOMAIN response.net_balances)

\* C5: group_view never aborts with an error (on a ledger of positive
\* expenses).
C5_GroupViewNeverRaises ==
  AllPositive => response # ServerError("group_view")

\* C7: the shares stored for an expense of a positive amount, split among
\* members of the group, sum to its amount within 0.01.
C7_SharesSumToAmount ==
  \A e \in expenses :
    (/\ SharesOf(e.id) # {}
     /\ e.amount > 0
     /\ \A s \in SharesOf(e.id) : IsMember(s.user_id)) =>
      Abs(SumSet([s \in SharesOf(e.id) |-> s.amount], SharesOf(e.id)) - e.amount) <= Cent

\* the creditors and debtors of the balance map handed to compute_settlements
Positive == {u \in DOMAIN bal_map : bal_map[u] > 0}

Negative == {u \in DOMAIN bal_map : bal_map[u] < 0}

QuantizedPositive == {u \in DOMAIN bal_map : Quantize(bal_map[u]) > 0}

QuantizedNegative == {u \in DOMAIN bal_map : Quantize(bal_map[u]) < 0}

\* C6 (as claimed): the returned list has at most (members with a positive
\* balance) + (members with a negative balance) - 1 entries.
C6_TransactionBound ==
  sweep.pc = "done" =>
    Len(sweep.settlements) <= Cardinality(Positive) + Cardinality(Negative) - 1

\* C6 (amended): the returned list has at most creditors + debtors - 1
\* entries whenever some member's balance, quantized to 2 decimals, is not
\* zero; when every balance is zero (or the map is empty) the list is empty,
\* which is one more than creditors + debtors - 1 = -1.
C6_TransactionBoundNonEmpty ==
  sweep.pc = "done" =>
    IF QuantizedPositive \cup QuantizedNegative = {}
    THEN sweep.settlements = <<>>
    ELSE Len(sweep.settlements)
           <= Cardinality(QuantizedPositive) + Cardinality(QuantizedNegative) - 1

\* C6 witness: a sweep has ended with several transfers, exactly
\* creditors + debtors - 1 of them
C6_Witness ==
  /\ sweep.pc = "done"
  /\ Len(sweep.settlements) >= 2
  /\ Len(sweep.settlements)
       = Cardinality(QuantizedPositive) + Cardinality(QuantizedNegative) - 1

QuantizedSum == SumSet([u \in DOMAIN bal_map |-> Quantize(bal_map[u])], DOMAIN bal_map)

AllSettled ==
  /\ \A k \in 1..Len(sweep.creditors) : sweep.creditors[k][2] = 0
  /\ \A k \in 1..Len(sweep.debtors) : sweep.debtors[k][2] = 0

\* C9: on a balance map whose quantized values sum to exactly zero, the sweep
\* eventually ends, and ends with every creditor's and every debtor's
\* remaining amount exactly zero.
C9_SweepSettlesEveryone ==
  (sweep.pc = "loop" /\ QuantizedSum = 0) ~> (sweep.pc = "done" /\ AllSettled)

\* C9 witness: such a sweep has ended after a transfer that was not its last
\* brought debtor and creditor to zero together (each further entry short of
\* creditors + debtors - 1 is one such step)
C9_Witness ==
  /\ sweep.pc = "done"
  /\ QuantizedSum = 0
  /\ AllSettled
  /\ Len(sweep.settlements) >= 2
  /\ Len(sweep.settlements)
       < Cardinality(QuantizedPositive) + Cardinality(QuantizedNegative) - 1

\* C8: an add_expense request whose amount is not a number, zero or negative
\* leaves the Expense and ExpenseShare tables unchanged.
C8_BadAmountPersistsNothing ==
  [][(/\ request'.handler = "add_expense"
      /\ ~request'.form.amount.numeric \/ request'.form.amount.value <= 0)
       => UNCHANGED <<expenses, shares>>]_vars

\* C10: a page rendered by group_view shows no Expense of a request that is
\* still between its commits, i.e. whose shares are not yet written or whose
\* custom split is about to be rejected.
C10_ReaderSeesCompleteExpenses ==
  response.kind = "group" => \A r \in inflight : r.e \notin response.expenses

====
